---- MODULE Spec2Model ----
(***************************************************************************)
(* dom-once: marking DOM elements with "once ids" kept in a whitespace-    *)
(* delimited data attribute.  The model follows src/src/dom-once.ts; the   *)
(* read-only findOnce is taken from the later revision of the same file.   *)
(*                                                                         *)
(* A string is a sequence of one-character strings.  Characters that have  *)
(* no printable form carry a symbolic name ("TAB", "NBSP", ...).           *)
(***************************************************************************)
EXTENDS Integers, Sequences, FiniteSets, TLC

\* ------------------------------------------------------------------ bounds
\* Number of elements of the document, in document order 1..NumElems.
NumElems == 2
\* Longest iterable / array-like collection handed to an operation.
MaxItems == 2
\* Longest attribute value handed to the private helpers.
MaxLen == 5

Elems == 1..NumElems

\* ------------------------------------------------------------- characters
LowerCase ==
  {"a","b","c","d","e","f","g","h","i","j","k","l","m",
   "n","o","p","q","r","s","t","u","v","w","x","y","z"}
UpperCase ==
  {"A","B","C","D","E","F","G","H","I","J","K","L","M",
   "N","O","P","Q","R","S","T","U","V","W","X","Y","Z"}
Digits == {"0","1","2","3","4","5","6","7","8","9"}

\* What the selector engine treats as a separator in [attr~="word"]:
\* space, tab, line feed, form feed, carriage return.
CssWhitespace == {" ", "TAB", "LF", "FF", "CR"}

\* What the regular expression class \s (and String.prototype.trim) treats
\* as white space: the five above and, among others, the vertical tab, the
\* no-break space and the byte order mark.
WHITESPACE_PATTERN == CssWhitespace \cup {"VT", "NBSP", "BOM"}

\* /^[a-zA-Z0-9_-]+$/
ONCE_ID_PATTERN == LowerCase \cup UpperCase \cup Digits \cup {"_", "-"}

\* /^data-[a-z0-9.:-]+$/ : the characters allowed after the "data-" prefix.
DATA_ATTRIBUTE_PATTERN == LowerCase \cup Digits \cup {".", ":", "-"}
DataPrefix == <<"d","a","t","a","-">>

\* 'data-dom-once'
ONCE_ATTRIBUTE_NAME == <<"d","a","t","a","-","d","o","m","-","o","n","c","e">>

\* ------------------------------------------------------- string primitives
RECURSIVE TrimStart(_)
TrimStart(s) ==
  IF s = <<>> THEN s
  ELSE IF Head(s) \in WHITESPACE_PATTERN THEN TrimStart(Tail(s)) ELSE s

RECURSIVE TrimEnd(_)
TrimEnd(s) ==
  IF s = <<>> THEN s
  ELSE IF s[Len(s)] \in WHITESPACE_PATTERN
       THEN TrimEnd(SubSeq(s, 1, Len(s) - 1)) ELSE s

\* String.prototype.trim
Trim(s) == TrimEnd(TrimStart(s))

\* String.prototype.split(sep+) for a separator class: every maximal run of
\* separators ends a piece; a run at either end leaves an empty piece there,
\* and the empty string splits into one empty piece.
RECURSIVE SplitRun(_, _, _, _)
SplitRun(s, seps, cur, acc) ==
  IF s = <<>> THEN Append(acc, cur)
  ELSE IF Head(s) \in seps
       THEN IF Len(s) > 1 /\ s[2] \in seps
            THEN SplitRun(Tail(s), seps, cur, acc)
            ELSE SplitRun(Tail(s), seps, <<>>, Append(acc, cur))
       ELSE SplitRun(Tail(s), seps, Append(cur, Head(s)), acc)

Split(s, seps) == SplitRun(s, seps, <<>>, <<>>)

NonEmpty(p) == Len(p) > 0

\* Array.prototype.join(' ')
RECURSIVE Join(_)
Join(ids) ==
  IF ids = <<>> THEN <<>>
  ELSE IF Len(ids) = 1 THEN ids[1]
       ELSE ids[1] \o <<" ">> \o Join(Tail(ids))

\* Array.prototype.includes
Includes(ids, id) == \E i \in 1..Len(ids) : ids[i] = id

\* ----------------------------------------------------------- the DOM state
\* An attribute of an element: absent (getAttribute gives null) or present
\* with a string value.
NoAttr == [present |-> FALSE, value |-> <<>>]
Attr(s) == [present |-> TRUE, value |-> s]

\* The second attribute name used by callers that pass their own
\* onceAttribute: 'data-x'.
CustomAttribute == <<"d","a","t","a","-","x">>
\* A third one, with every kind of character the pattern allows after the
\* prefix: 'data-a.:-9'.
DottedAttribute == <<"d","a","t","a","-","a",".",":","-","9">>
AttrNames == {ONCE_ATTRIBUTE_NAME, CustomAttribute, DottedAttribute}

\* element.getAttribute(name)
getAttribute(dom, element, name) == dom[element][name]

\* element.setAttribute(name, value)
setAttribute(dom, element, name, value) ==
  [dom EXCEPT ![element] = [@ EXCEPT ![name] = Attr(value)]]

\* element.removeAttribute(name)
removeAttribute(dom, element, name) ==
  [dom EXCEPT ![element] = [@ EXCEPT ![name] = NoAttr]]

\* JavaScript truthiness of what getAttribute returned: null and the empty
\* string are falsy.
Truthy(a) == a.present /\ a.value # <<>>

\* element.matches('[name~="word"]'): the attribute is present and one of
\* the words of its value, separated by CSS white space, is exactly `word`;
\* an empty word or a word with white space matches nothing.
AttrMatchesWord(a, word) ==
  /\ a.present
  /\ word # <<>>
  /\ \A i \in 1..Len(word) : word[i] \notin CssWhitespace
  /\ Includes(SelectSeq(Split(a.value, CssWhitespace), NonEmpty), word)

MatchesWord(dom, element, name, word) ==
  AttrMatchesWord(getAttribute(dom, element, name), word)

\* The document: elements 1..NumElems in document order.  Element e has
\* class "x" iff e is odd; the container holds every element but the first.
DocOrder == [i \in 1..NumElems |-> i]
HasClassX(e) == e % 2 = 1
InContext(context, e) ==
  \/ context = "document"
  \/ context = "container" /\ e >= 2
SelectorMatches(css, e) ==
  \/ css = "div"
  \/ css = ".x" /\ HasClassX(e)

\* context.querySelectorAll(css): the descendants of the context that match,
\* in document order.
querySelectorAll(context, css) ==
  SelectSeq(DocOrder, LAMBDA e : InContext(context, e) /\ SelectorMatches(css, e))

\* --------------------------------------------------------- private helpers
\* value.trim().split(WHITESPACE_PATTERN).filter((s) => s.length > 0)
OnceIdList(value) ==
  SelectSeq(Split(Trim(value), WHITESPACE_PATTERN), NonEmpty)

\* A variant that allows only lower-case letters after the prefix.
assertDataAttribute_LettersOnly(value) ==
  /\ Len(value) > Len(DataPrefix)
  /\ SubSeq(value, 1, Len(DataPrefix)) = DataPrefix
  /\ \A i \in (Len(DataPrefix) + 1)..Len(value) : value[i] \in LowerCase

assertDataAttribute(value) ==
  /\ Len(value) > Len(DataPrefix)
  /\ SubSeq(value, 1, Len(DataPrefix)) = DataPrefix
  /\ \A i \in (Len(DataPrefix) + 1)..Len(value) : value[i] \in DATA_ATTRIBUTE_PATTERN

\* A JavaScript value passed as once id: a string, null or undefined.
Str(s) == [type |-> "string", chars |-> s]
NullValue == [type |-> "null", chars |-> <<>>]

\* "ok", or the error assertOnceId throws.
assertOnceId(value) ==
  IF value.type # "string" \/ value.chars = <<>>
  THEN "OnceIdEmpty"
  ELSE IF \E i \in 1..Len(value.chars) : value.chars[i] \notin ONCE_ID_PATTERN
       THEN "OnceIdInvalid"
       ELSE "ok"

\* A variant that appends the once id without looking for it in the list.
addOnceAttributeValue_NoCheck(dom, element, onceId, onceAttribute) ==
  LET value == getAttribute(dom, element, onceAttribute)
      ids == IF Truthy(value) THEN OnceIdList(value.value) ELSE <<>>
  IN setAttribute(dom, element, onceAttribute, Join(Append(ids, onceId)))

addOnceAttributeValue(dom, element, onceId, onceAttribute) ==
  LET value == getAttribute(dom, element, onceAttribute)
      ids == IF Truthy(value) THEN OnceIdList(value.value) ELSE <<>>
  IN IF Includes(ids, onceId) THEN dom
     ELSE setAttribute(dom, element, onceAttribute, Join(Append(ids, onceId)))

\* A variant that removes only the first occurrence of the once id.
removeOnceAttributeValue_FirstOnly(dom, element, onceId, onceAttribute) ==
  LET value == getAttribute(dom, element, onceAttribute) IN
    IF ~Truthy(value) THEN dom
    ELSE LET onceIdList == OnceIdList(value.value)
             filtered ==
               IF ~Includes(onceIdList, onceId) THEN onceIdList
               ELSE LET k == CHOOSE i \in 1..Len(onceIdList) :
                               /\ onceIdList[i] = onceId
                               /\ \A j \in 1..(i - 1) : onceIdList[j] # onceId
                    IN SubSeq(onceIdList, 1, k - 1)
                         \o SubSeq(onceIdList, k + 1, Len(onceIdList))
         IN IF Len(filtered) = 0
            THEN removeAttribute(dom, element, onceAttribute)
            ELSE setAttribute(dom, element, onceAttribute, Join(filtered))

\* A variant that writes the filtered list back even when it is empty.
removeOnceAttributeValue_KeepsEmpty(dom, element, onceId, onceAttribute) ==
  LET value == getAttribute(dom, element, onceAttribute) IN
    IF ~Truthy(value) THEN dom
    ELSE LET onceIdList == OnceIdList(value.value)
             filtered == SelectSeq(onceIdList, LAMBDA id : id # onceId)
         IN setAttribute(dom, element, onceAttribute, Join(filtered))

removeOnceAttributeValue(dom, element, onceId, onceAttribute) ==
  LET value == getAttribute(dom, element, onceAttribute) IN
    IF ~Truthy(value) THEN dom
    ELSE LET onceIdList == OnceIdList(value.value)
             filtered == SelectSeq(onceIdList, LAMBDA id : id # onceId)
         IN IF Len(filtered) = 0
            THEN removeAttribute(dom, element, onceAttribute)
            ELSE setAttribute(dom, element, onceAttribute, Join(filtered))

\* A variant that looks for the once id anywhere inside the value.
hasOnceAttributeValue_Substring(dom, element, onceId, onceAttribute) ==
  LET value == getAttribute(dom, element, onceAttribute) IN
    IF ~Truthy(value) THEN FALSE
    ELSE \E i \in 1..Len(value.value) :
           /\ i + Len(onceId) - 1 <= Len(value.value)
           /\ SubSeq(value.value, i, i + Len(onceId) - 1) = onceId

\* A variant that looks for the once id under every attribute name.
hasOnceAttributeValue_AnyAttribute(dom, element, onceId, onceAttribute) ==
  \E name \in AttrNames :
    /\ Truthy(getAttribute(dom, element, name))
    /\ MatchesWord(dom, element, name, onceId)

hasOnceAttributeValue(dom, element, onceId, onceAttribute) ==
  LET value == getAttribute(dom, element, onceAttribute) IN
    IF ~Truthy(value) THEN FALSE
    ELSE MatchesWord(dom, element, onceAttribute, onceId)

\* A selector argument.  kind: "string" (css), "element" (el), "iterable"
\* (items; a generator, a Set, a NodeList), "arraylike" (items; an object
\* with length and indexed access that is not iterable), "array" (items;
\* both iterable and array-like), "number" (none of the shapes).
\* A member of items is an element or 0, which stands for a non-element.
isIterable(selector) == selector.kind \in {"iterable", "array"}
isArrayLike(selector) == selector.kind \in {"arraylike", "array"}
isElement(m) == m \in Elems

\* A variant that takes every object for a collection.
assertValidSelectorTypes_AnyObject(selector) ==
  selector.kind \in {"string", "element", "iterable", "arraylike", "array", "object"}

assertValidSelectorTypes(selector) ==
  \/ selector.kind = "string"
  \/ selector.kind = "element"
  \/ isIterable(selector)
  \/ isArrayLike(selector)

\* A variant that rejects only a context that is falsy.
assertValidContext_NullOnly(context) == context # "null"

\* !context || typeof context.querySelectorAll !== 'function'
assertValidContext(context) == context \in {"document", "container"}

\* ------------------------------------------------------------ public API
\* What a call leaves behind: the DOM, how it ended ("return" or the error
\* thrown), the array returned, and the callback invocations in order, each
\* with the element and the value its once attribute had at that moment.
Returned(dom, elements, calls) ==
  [dom |-> dom, outcome |-> "return", elements |-> elements, calls |-> calls]
Thrown(dom, error, calls) ==
  [dom |-> dom, outcome |-> error, elements |-> <<>>, calls |-> calls]

\* const { onceAttribute = ONCE_ATTRIBUTE_NAME, context = document } = options
OnceAttributeOf(options) ==
  IF options.onceAttribute.type = "undefined"
  THEN ONCE_ATTRIBUTE_NAME ELSE options.onceAttribute.chars
ContextOf(options) ==
  IF options.context = "undefined" THEN "document" ELSE options.context

\* A variant of the loop below that writes the once ids of an element that
\* has the once id back, joined by single spaces.
RECURSIVE MarkLoop_Rewrites(_, _, _, _, _, _)
MarkLoop_Rewrites(dom, queryResults, i, elements, onceId, onceAttribute) ==
  IF i > Len(queryResults) THEN Returned(dom, elements, <<>>)
  ELSE LET element == queryResults[i] IN
    IF ~hasOnceAttributeValue(dom, element, onceId, onceAttribute)
    THEN MarkLoop_Rewrites(addOnceAttributeValue(dom, element, onceId, onceAttribute),
                           queryResults, i + 1, Append(elements, element),
                           onceId, onceAttribute)
    ELSE MarkLoop_Rewrites(
           setAttribute(dom, element, onceAttribute,
                        Join(OnceIdList(getAttribute(dom, element, onceAttribute).value))),
           queryResults, i + 1, elements, onceId, onceAttribute)

\* for (let i = 0; i < queryResults.length; i++) { if (!has) { add; push } }
RECURSIVE MarkLoop(_, _, _, _, _, _)
MarkLoop(dom, queryResults, i, elements, onceId, onceAttribute) ==
  IF i > Len(queryResults) THEN Returned(dom, elements, <<>>)
  ELSE LET element == queryResults[i] IN
    IF ~hasOnceAttributeValue(dom, element, onceId, onceAttribute)
    THEN MarkLoop(addOnceAttributeValue(dom, element, onceId, onceAttribute),
                  queryResults, i + 1, Append(elements, element),
                  onceId, onceAttribute)
    ELSE MarkLoop(dom, queryResults, i + 1, elements, onceId, onceAttribute)

\* A variant that validates the context before it looks for the empty
\* selector.
querySelectorOnce_ContextFirst(dom, onceId, selector, options) ==
  LET onceAttribute == OnceAttributeOf(options)
      context == ContextOf(options)
  IN IF assertOnceId(onceId) # "ok" THEN Thrown(dom, assertOnceId(onceId), <<>>)
     ELSE IF ~assertDataAttribute(onceAttribute)
          THEN Thrown(dom, "DataAttributeInvalid", <<>>)
     ELSE IF selector.kind # "string" THEN Thrown(dom, "SelectorTypeError", <<>>)
     ELSE IF ~assertValidContext(context)
          THEN Thrown(dom, "ContextTypeError", <<>>)
     ELSE IF selector.css = "" THEN Returned(dom, <<>>, <<>>)
     ELSE MarkLoop(dom, querySelectorAll(context, selector.css), 1, <<>>,
                   onceId.chars, onceAttribute)

querySelectorOnce(dom, onceId, selector, options) ==
  LET onceAttribute == OnceAttributeOf(options)
      context == ContextOf(options)
  IN IF assertOnceId(onceId) # "ok" THEN Thrown(dom, assertOnceId(onceId), <<>>)
     ELSE IF ~assertDataAttribute(onceAttribute)
          THEN Thrown(dom, "DataAttributeInvalid", <<>>)
     ELSE IF selector.kind # "string" THEN Thrown(dom, "SelectorTypeError", <<>>)
     ELSE IF selector.css = "" THEN Returned(dom, <<>>, <<>>)
     ELSE IF ~assertValidContext(context)
          THEN Thrown(dom, "ContextTypeError", <<>>)
     ELSE MarkLoop(dom, querySelectorAll(context, selector.css), 1, <<>>,
                   onceId.chars, onceAttribute)

\* A variant of the loop below that returns the elements carrying the once
\* id and leaves their attributes alone.
RECURSIVE UnmarkLoop_KeepsMark(_, _, _, _, _, _, _)
UnmarkLoop_KeepsMark(dom, list, i, len, elements, onceId, onceAttribute) ==
  IF i > len THEN Returned(dom, elements, <<>>)
  ELSE LET maybeEl == list[i] IN
    IF isElement(maybeEl) /\ hasOnceAttributeValue(dom, maybeEl, onceId, onceAttribute)
    THEN UnmarkLoop_KeepsMark(dom, list, i + 1, len, Append(elements, maybeEl),
                              onceId, onceAttribute)
    ELSE UnmarkLoop_KeepsMark(dom, list, i + 1, len, elements, onceId, onceAttribute)

\* The loop removeOnce runs over its candidates, for every selector shape:
\* if (maybeEl instanceof Element && has) { remove; push }
RECURSIVE UnmarkLoop(_, _, _, _, _, _, _)
UnmarkLoop(dom, list, i, len, elements, onceId, onceAttribute) ==
  IF i > len THEN Returned(dom, elements, <<>>)
  ELSE LET maybeEl == list[i] IN
    IF isElement(maybeEl) /\ hasOnceAttributeValue(dom, maybeEl, onceId, onceAttribute)
    THEN UnmarkLoop(removeOnceAttributeValue(dom, maybeEl, onceId, onceAttribute),
                    list, i + 1, len, Append(elements, maybeEl),
                    onceId, onceAttribute)
    ELSE UnmarkLoop(dom, list, i + 1, len, elements, onceId, onceAttribute)

removeOnce(dom, onceId, selector, options) ==
  LET onceAttribute == OnceAttributeOf(options)
      context == ContextOf(options)
  IN IF assertOnceId(onceId) # "ok" THEN Thrown(dom, assertOnceId(onceId), <<>>)
     ELSE IF ~assertDataAttribute(onceAttribute)
          THEN Thrown(dom, "DataAttributeInvalid", <<>>)
     ELSE IF ~assertValidSelectorTypes(selector)
          THEN Thrown(dom, "SelectorTypeError", <<>>)
     ELSE IF selector.kind = "string" /\ selector.css = ""
          THEN Returned(dom, <<>>, <<>>)
     ELSE IF selector.kind = "string"
          THEN IF ~assertValidContext(context)
               THEN Thrown(dom, "ContextTypeError", <<>>)
               ELSE LET results == querySelectorAll(context, selector.css) IN
                      UnmarkLoop(dom, results, 1, Len(results), <<>>,
                                 onceId.chars, onceAttribute)
     ELSE IF selector.kind = "element"
          THEN UnmarkLoop(dom, <<selector.el>>, 1, 1, <<>>,
                          onceId.chars, onceAttribute)
     ELSE UnmarkLoop(dom, selector.items, 1, Len(selector.items), <<>>,
                     onceId.chars, onceAttribute)

\* A variant that validates the attribute name before the once id.
findOnce_AttributeFirst(dom, onceId, options) ==
  LET onceAttribute == OnceAttributeOf(options)
      context == ContextOf(options)
  IN IF ~assertDataAttribute(onceAttribute)
     THEN Thrown(dom, "DataAttributeInvalid", <<>>)
     ELSE IF assertOnceId(onceId) # "ok" THEN Thrown(dom, assertOnceId(onceId), <<>>)
     ELSE IF ~assertValidContext(context)
          THEN Thrown(dom, "ContextTypeError", <<>>)
     ELSE Returned(dom,
            SelectSeq(DocOrder, LAMBDA e :
              InContext(context, e) /\ MatchesWord(dom, e, onceAttribute, onceId.chars)),
            <<>>)

\* findOnce: Array.from(context.querySelectorAll('[onceAttribute~="onceId"]'))
findOnce(dom, onceId, options) ==
  LET onceAttribute == OnceAttributeOf(options)
      context == ContextOf(options)
  IN IF assertOnceId(onceId) # "ok" THEN Thrown(dom, assertOnceId(onceId), <<>>)
     ELSE IF ~assertDataAttribute(onceAttribute)
          THEN Thrown(dom, "DataAttributeInvalid", <<>>)
     ELSE IF ~assertValidContext(context)
          THEN Thrown(dom, "ContextTypeError", <<>>)
     ELSE Returned(dom,
            SelectSeq(DocOrder, LAMBDA e :
              InContext(context, e) /\ MatchesWord(dom, e, onceAttribute, onceId.chars)),
            <<>>)

\* A callback argument: a function, which throws when it is handed one of
\* the elements of throwsOn and otherwise returns without touching the
\* attributes, or a value that is not a function.  A function may change
\* the collection doOnce is going through: effect "append" adds element el
\* at its end, effect "remove" takes out the element the callback was
\* handed, effect "none" leaves it alone.
Fn(throwsOn) ==
  [type |-> "function", throwsOn |-> throwsOn, effect |-> "none", el |-> 0]
LiveFn(effect, el) ==
  [type |-> "function", throwsOn |-> {}, effect |-> effect, el |-> el]
NotAFunction == [type |-> "object", throwsOn |-> {}, effect |-> "none", el |-> 0]

\* A collection grows to at most this many members.
MaxLive == MaxItems + 1

\* The collection after the callback has returned from `element`.
Mutated(callback, list, element) ==
  IF callback.effect = "append" /\ Len(list) < MaxLive
  THEN Append(list, callback.el)
  ELSE IF callback.effect = "remove"
  THEN SelectSeq(list, LAMBDA m : m # element)
  ELSE list

\* list[i] of a collection: undefined, which is no element, past its end.
Item(list, i) == IF i <= Len(list) THEN list[i] ELSE 0

\* A function that, handed an element, calls doOnce again before it
\* returns: with the once id, selector and options it was built with, and
\* a function that does nothing.  The selector HandedElement stands for the
\* element the function was handed.
HandedElement == [kind |-> "handed", css |-> "", el |-> 0, items |-> <<>>]
ReentrantFn(onceId, selector, options) ==
  [type |-> "function", throwsOn |-> {}, effect |-> "reenter", el |-> 0,
   onceId |-> onceId, selector |-> selector, options |-> options]

RECURSIVE doOnce(_, _, _, _, _)

\* callback(element): the DOM it leaves, whether it threw, and the
\* invocations made by the doOnce calls it made before it returned.
Invoke(callback, dom, element) ==
  IF callback.effect = "reenter"
  THEN LET selector == IF callback.selector = HandedElement
                       THEN [kind |-> "element", css |-> "", el |-> element, items |-> <<>>]
                       ELSE callback.selector
           r == doOnce(dom, callback.onceId, selector, Fn({}), callback.options)
       IN [dom |-> r.dom, threw |-> r.outcome # "return", calls |-> r.calls]
  ELSE [dom |-> dom, threw |-> element \in callback.throwsOn, calls |-> <<>>]

\* The record of one invocation, taken as the callback is entered: the
\* element, the value of its once attribute, and the whole document.
Call(dom, element, onceAttribute) ==
  [el |-> element, attr |-> getAttribute(dom, element, onceAttribute),
   dom |-> dom]

\* string selector branch: for (const element of elements) callback(element)
RECURSIVE CallbackLoop(_, _, _, _, _, _)
CallbackLoop(dom, elements, i, calls, callback, onceAttribute) ==
  IF i > Len(elements) THEN Returned(dom, elements, calls)
  ELSE LET r == Invoke(callback, dom, elements[i])
           log == Append(calls, Call(dom, elements[i], onceAttribute)) \o r.calls
       IN IF r.threw THEN Thrown(r.dom, "CallbackError", log)
          ELSE CallbackLoop(r.dom, elements, i + 1, log, callback, onceAttribute)

\* A variant of the pass below that puts the element at the front of the
\* result.
ProcessElement_Prepends(dom, maybeEl, elements, calls, onceId, callback, onceAttribute) ==
  LET r == Invoke(callback, dom, maybeEl)
      log == Append(calls, Call(dom, maybeEl, onceAttribute)) \o r.calls
  IN IF r.threw
     THEN [dom |-> r.dom, elements |-> elements, calls |-> log, threw |-> TRUE]
     ELSE [dom |-> addOnceAttributeValue(r.dom, maybeEl, onceId, onceAttribute),
           elements |-> <<maybeEl>> \o elements, calls |-> log, threw |-> FALSE]

\* One pass of the body shared by the single-element, iterable and
\* array-like branches: callback(el); addOnceAttributeValue(el); push(el).
\* Gives the DOM, the result so far, the log, and whether the callback threw.
ProcessElement(dom, maybeEl, elements, calls, onceId, callback, onceAttribute) ==
  LET r == Invoke(callback, dom, maybeEl)
      log == Append(calls, Call(dom, maybeEl, onceAttribute)) \o r.calls
  IN IF r.threw
     THEN [dom |-> r.dom, elements |-> elements, calls |-> log, threw |-> TRUE]
     ELSE [dom |-> addOnceAttributeValue(r.dom, maybeEl, onceId, onceAttribute),
           elements |-> Append(elements, maybeEl), calls |-> log, threw |-> FALSE]

\* A variant of the loop below that ends at the first member that is not an
\* element.
RECURSIVE IterableLoop_StopsAtNonElement(_, _, _, _, _, _, _, _)
IterableLoop_StopsAtNonElement(dom, list, i, elements, calls, onceId, callback, onceAttribute) ==
  IF i > Len(list) \/ ~isElement(Item(list, i)) THEN Returned(dom, elements, calls)
  ELSE LET maybeEl == list[i] IN
    IF ~hasOnceAttributeValue(dom, maybeEl, onceId, onceAttribute)
    THEN LET p == ProcessElement(dom, maybeEl, elements, calls,
                                 onceId, callback, onceAttribute)
         IN IF p.threw THEN Thrown(p.dom, "CallbackError", p.calls)
            ELSE IterableLoop_StopsAtNonElement(
                   p.dom, Mutated(callback, list, maybeEl), i + 1,
                   p.elements, p.calls, onceId, callback, onceAttribute)
    ELSE IterableLoop_StopsAtNonElement(dom, list, i + 1, elements, calls,
                                        onceId, callback, onceAttribute)

\* iterable branch: for (const maybeEl of selector) { ... }.  The iterator
\* of a collection asks for the member at its position i and is done when
\* i is past the end the collection has at that moment.
RECURSIVE IterableLoop(_, _, _, _, _, _, _, _)
IterableLoop(dom, list, i, elements, calls, onceId, callback, onceAttribute) ==
  IF i > Len(list) THEN Returned(dom, elements, calls)
  ELSE LET maybeEl == list[i] IN
    IF isElement(maybeEl) /\ ~hasOnceAttributeValue(dom, maybeEl, onceId, onceAttribute)
    THEN LET p == ProcessElement(dom, maybeEl, elements, calls,
                                 onceId, callback, onceAttribute)
         IN IF p.threw THEN Thrown(p.dom, "CallbackError", p.calls)
            ELSE IterableLoop(p.dom, Mutated(callback, list, maybeEl), i + 1,
                              p.elements, p.calls, onceId, callback, onceAttribute)
    ELSE IterableLoop(dom, list, i + 1, elements, calls,
                      onceId, callback, onceAttribute)

\* array-like branch: for (let i = 0, len = list.length; i < len; i++) { ... }
RECURSIVE ArrayLikeLoop(_, _, _, _, _, _, _, _, _)
ArrayLikeLoop(dom, list, i, len, elements, calls, onceId, callback, onceAttribute) ==
  IF i > len THEN Returned(dom, elements, calls)
  ELSE LET maybeEl == Item(list, i) IN
    IF isElement(maybeEl) /\ ~hasOnceAttributeValue(dom, maybeEl, onceId, onceAttribute)
    THEN LET p == ProcessElement(dom, maybeEl, elements, calls,
                                 onceId, callback, onceAttribute)
         IN IF p.threw THEN Thrown(p.dom, "CallbackError", p.calls)
            ELSE ArrayLikeLoop(p.dom, Mutated(callback, list, maybeEl), i + 1, len,
                               p.elements, p.calls, onceId, callback, onceAttribute)
    ELSE ArrayLikeLoop(dom, list, i + 1, len, elements, calls,
                       onceId, callback, onceAttribute)

\* A variant that looks at the type of the callback only after the
\* elements have been processed.
doOnce_LateCallbackCheck(dom, onceId, selector, callback, options) ==
  LET onceAttribute == OnceAttributeOf(options)
      context == ContextOf(options)
      r == IF selector.kind = "string" /\ selector.css = ""
           THEN Returned(dom, <<>>, <<>>)
           ELSE IF selector.kind = "string"
           THEN LET q == querySelectorOnce(dom, onceId, selector,
                           [onceAttribute |-> Str(onceAttribute), context |-> context])
                IN IF q.outcome # "return" THEN q
                   ELSE CallbackLoop(q.dom, q.elements, 1, <<>>, callback, onceAttribute)
           ELSE IF selector.kind = "element"
           THEN IF hasOnceAttributeValue(dom, selector.el, onceId.chars, onceAttribute)
                THEN Returned(dom, <<>>, <<>>)
                ELSE LET p == ProcessElement(dom, selector.el, <<>>, <<>>,
                                             onceId.chars, callback, onceAttribute)
                     IN IF p.threw THEN Thrown(p.dom, "CallbackError", p.calls)
                        ELSE Returned(p.dom, p.elements, p.calls)
           ELSE IF isIterable(selector)
           THEN IterableLoop(dom, selector.items, 1, <<>>, <<>>,
                             onceId.chars, callback, onceAttribute)
           ELSE ArrayLikeLoop(dom, selector.items, 1, Len(selector.items), <<>>, <<>>,
                              onceId.chars, callback, onceAttribute)
  IN IF assertOnceId(onceId) # "ok" THEN Thrown(dom, assertOnceId(onceId), <<>>)
     ELSE IF ~assertDataAttribute(onceAttribute)
          THEN Thrown(dom, "DataAttributeInvalid", <<>>)
     ELSE IF ~assertValidSelectorTypes(selector)
          THEN Thrown(dom, "SelectorTypeError", <<>>)
     ELSE IF callback.type # "function"
          THEN Thrown(r.dom, "CallbackTypeError", <<>>)
     ELSE r

doOnce(dom, onceId, selector, callback, options) ==
  LET onceAttribute == OnceAttributeOf(options)
      context == ContextOf(options)
  IN IF assertOnceId(onceId) # "ok" THEN Thrown(dom, assertOnceId(onceId), <<>>)
     ELSE IF ~assertDataAttribute(onceAttribute)
          THEN Thrown(dom, "DataAttributeInvalid", <<>>)
     ELSE IF ~assertValidSelectorTypes(selector)
          THEN Thrown(dom, "SelectorTypeError", <<>>)
     ELSE IF callback.type # "function"
          THEN Thrown(dom, "CallbackTypeError", <<>>)
     ELSE IF selector.kind = "string" /\ selector.css = ""
          THEN Returned(dom, <<>>, <<>>)
     ELSE IF selector.kind = "string"
          THEN LET q == querySelectorOnce(dom, onceId, selector,
                          [onceAttribute |-> Str(onceAttribute), context |-> context])
               IN IF q.outcome # "return" THEN q
                  ELSE CallbackLoop(q.dom, q.elements, 1, <<>>, callback, onceAttribute)
     ELSE IF selector.kind = "element"
          THEN IF hasOnceAttributeValue(dom, selector.el, onceId.chars, onceAttribute)
               THEN Returned(dom, <<>>, <<>>)
               ELSE LET p == ProcessElement(dom, selector.el, <<>>, <<>>,
                                            onceId.chars, callback, onceAttribute)
                    IN IF p.threw THEN Thrown(p.dom, "CallbackError", p.calls)
                       ELSE Returned(p.dom, p.elements, p.calls)
     ELSE IF isIterable(selector)
          THEN IterableLoop(dom, selector.items, 1, <<>>, <<>>,
                            onceId.chars, callback, onceAttribute)
     ELSE ArrayLikeLoop(dom, selector.items, 1, Len(selector.items), <<>>, <<>>,
                        onceId.chars, callback, onceAttribute)

\* ------------------------------------------------------------------ state
VARIABLES
  attrs,   \* the document: attrs[e][name] is attribute `name` of element e
  last,    \* the most recent call: its arguments, the DOM before it, its result
  prev     \* a summary of the call before that one

vars == <<attrs, last, prev>>

\* Once ids and attribute values of the initial markup.
T_bt == <<"b","t">>
T_btn == <<"b","t","n">>

\* Attribute values of the initial markup: absent; present and empty; a
\* padded value with a tab, holding "Bt" and "bt"; two values whose ids
\* are separated by a no-break space; a value holding "bt" twice.
InitValues ==
  { NoAttr,
    Attr(<<>>),
    Attr(<<" ","B","t","TAB"," ","b","t">>),
    Attr(<<"b","t","NBSP","B","t">>),
    Attr(<<"b","t","NBSP","b","t","n">>),
    Attr(<<"b","t"," ","b","t">>) }

\* ----------------------------------------------------------------- inputs
Undefined == [type |-> "undefined", chars |-> <<>>]

ValidOnceIds == {Str(T_bt), Str(T_btn)}

Options(a, c) == [onceAttribute |-> a, context |-> c]
DefaultOptions == Options(Undefined, "undefined")
ContextOptions == {Options(Undefined, c) : c \in {"undefined", "container"}}

StringSelector(css) == [kind |-> "string", css |-> css, el |-> 0, items |-> <<>>]
ElementSelector(e) == [kind |-> "element", css |-> "", el |-> e, items |-> <<>>]
ListSelector(kind, items) == [kind |-> kind, css |-> "", el |-> 0, items |-> items]
NumberSelector == [kind |-> "number", css |-> "", el |-> 0, items |-> <<>>]
NullSelector == [kind |-> "null", css |-> "", el |-> 0, items |-> <<>>]
\* {} : an object that is not iterable and has no length.
PlainObjectSelector == [kind |-> "object", css |-> "", el |-> 0, items |-> <<>>]

\* Collections of at most MaxItems members, each an element or a
\* non-element, and the collections of two elements with a non-element
\* between them.
ItemLists ==
  UNION {[1..n -> Elems \cup {0}] : n \in 0..MaxItems}
    \cup {<<a, 0, b>> : a, b \in Elems}

CssSelectors == {StringSelector(css) : css \in {"", "div", ".x"}}
OtherSelectors ==
  {ElementSelector(e) : e \in Elems}
    \cup {ListSelector(k, l) : k \in {"iterable", "arraylike"}, l \in ItemLists}

\* The arguments (selector, options) of the well-formed calls.
Selections ==
  {<<selector, options>> : selector \in CssSelectors, options \in ContextOptions}
    \cup {<<selector, DefaultOptions>> : selector \in OtherSelectors}

\* One selector of each shape, every one selecting the whole document.
WholeDocument ==
  {<<StringSelector("div"), DefaultOptions>>,
   <<ListSelector("iterable", DocOrder), DefaultOptions>>,
   <<ListSelector("arraylike", DocOrder), DefaultOptions>>}
    \cup {<<ElementSelector(e), DefaultOptions>> : e \in Elems}

NoCallback == [type |-> "none", throwsOn |-> {}, effect |-> "none", el |-> 0]

\* ---------------------------------------------------------------- actions
Record(op, onceId, selector, callback, options, r) ==
  [op |-> op, onceId |-> onceId, selector |-> selector, callback |-> callback,
   options |-> options, pre |-> attrs,
   outcome |-> r.outcome, elements |-> r.elements, calls |-> r.calls]

RECURSIVE Range(_)
Range(seq) == IF seq = <<>> THEN {} ELSE {Head(seq)} \cup Range(Tail(seq))

\* The members a call visits, in order: the matches of a CSS string in the
\* context, the element, or the members of the collection.
Members(selector, options) ==
  IF selector.kind = "string"
  THEN IF selector.css # "" /\ assertValidContext(ContextOf(options))
       THEN querySelectorAll(ContextOf(options), selector.css) ELSE <<>>
  ELSE IF selector.kind = "element" THEN <<selector.el>>
  ELSE selector.items

\* The elements among them, in order.
Candidates(selector, options) == SelectSeq(Members(selector, options), isElement)

NoCall ==
  [op |-> "none", onceId |-> Undefined, selector |-> NumberSelector,
   callback |-> NoCallback, options |-> DefaultOptions,
   pre |-> [e \in Elems |-> [n \in AttrNames |-> NoAttr]],
   outcome |-> "return", elements |-> <<>>, calls |-> <<>>]

Init ==
  /\ attrs \in [Elems -> {[n \in AttrNames |->
                            IF n = ONCE_ATTRIBUTE_NAME THEN v ELSE NoAttr]
                          : v \in InitValues}]
  /\ last = NoCall
  /\ prev = NoCall

\* The history variables follow one stretch of a run: `last` stays NoCall
\* while calls change the document unobserved, then records one call.

\* A call made while nothing has been recorded: it is recorded or not.
Step(op, onceId, selector, callback, options, r) ==
  /\ last = NoCall
  /\ attrs' = r.dom
  /\ last' \in {NoCall, Record(op, onceId, selector, callback, options, r)}
  /\ UNCHANGED prev

\* A callback that returns, and one that throws on the first element of the
\* document.
Callbacks == {Fn({}), Fn({1})}

QuerySelectorOnce ==
  \E onceId \in ValidOnceIds, selector \in CssSelectors, options \in ContextOptions :
    Step("querySelectorOnce", onceId, selector, NoCallback, options,
         querySelectorOnce(attrs, onceId, selector, options))

RemoveOnce ==
  \E onceId \in ValidOnceIds, s \in Selections :
    Step("removeOnce", onceId, s[1], NoCallback, s[2],
         removeOnce(attrs, onceId, s[1], s[2]))

DoOnce ==
  \E onceId \in ValidOnceIds, s \in Selections, callback \in Callbacks :
    Step("doOnce", onceId, s[1], callback, s[2],
         doOnce(attrs, onceId, s[1], callback, s[2]))

FindOnce ==
  \E onceId \in ValidOnceIds, options \in ContextOptions :
    Step("findOnce", onceId, NumberSelector, NoCallback, options,
         findOnce(attrs, onceId, options))

Next == QuerySelectorOnce \/ RemoveOnce \/ DoOnce \/ FindOnce

Spec == Init /\ [][Next]_vars

\* Two calls in a row: once a call has been recorded the next one is
\* recorded too, and `prev` keeps the first.  One selector of each shape,
\* each selecting the whole document or one element, and a callback that
\* returns.
StepThen(op, onceId, selector, callback, options, r) ==
  /\ prev = NoCall
  /\ attrs' = r.dom
  /\ IF last = NoCall
     THEN /\ last' \in {NoCall, Record(op, onceId, selector, callback, options, r)}
          /\ prev' = prev
     ELSE /\ last' = Record(op, onceId, selector, callback, options, r)
          /\ prev' = last

QuerySelectorOnceThen ==
  \E onceId \in ValidOnceIds :
    StepThen("querySelectorOnce", onceId, StringSelector("div"), NoCallback,
             DefaultOptions,
             querySelectorOnce(attrs, onceId, StringSelector("div"), DefaultOptions))

RemoveOnceThen ==
  \E onceId \in ValidOnceIds, s \in WholeDocument :
    StepThen("removeOnce", onceId, s[1], NoCallback, s[2],
             removeOnce(attrs, onceId, s[1], s[2]))

DoOnceThen ==
  \E onceId \in ValidOnceIds, s \in WholeDocument :
    StepThen("doOnce", onceId, s[1], Fn({}), s[2],
             doOnce(attrs, onceId, s[1], Fn({}), s[2]))

NextSeq == QuerySelectorOnceThen \/ RemoveOnceThen \/ DoOnceThen

SpecSeq == Init /\ [][NextSeq]_vars

\* Calls whose arguments may be invalid.  Once ids: a valid one with a
\* capital, an underscore, a hyphen and a digit, the empty string, null,
\* undefined, one with a space and one with '@'.  Attribute
\* names: the default, and one without the data- prefix.  Contexts: the default, a container, and null.  Selectors: a
\* CSS string, the empty string, an element, a collection, a number.
\* Callbacks: a function and a value that is not one.
OnceIdInputs ==
  {Str(<<"A","_","-","9">>), Str(<<>>), NullValue, Undefined,
   Str(<<"b"," ","t">>), Str(<<"b","@">>)}
AttributeInputs == {Undefined, Str(<<"x">>)}
ContextInputs == {"undefined", "container", "null"}
OptionInputs == {Options(a, c) : a \in AttributeInputs, c \in ContextInputs}
SelectorInputs ==
  {StringSelector("div"), StringSelector(""), ElementSelector(1),
   ListSelector("arraylike", <<NumElems, 0>>), NumberSelector}
CallbackInputs == {Fn({}), NotAFunction}

QuerySelectorOnceAny ==
  \E onceId \in OnceIdInputs, selector \in SelectorInputs, options \in OptionInputs :
    Step("querySelectorOnce", onceId, selector, NoCallback, options,
         querySelectorOnce(attrs, onceId, selector, options))

RemoveOnceAny ==
  \E onceId \in OnceIdInputs, selector \in SelectorInputs, options \in OptionInputs :
    Step("removeOnce", onceId, selector, NoCallback, options,
         removeOnce(attrs, onceId, selector, options))

DoOnceAny ==
  \E onceId \in OnceIdInputs, selector \in SelectorInputs,
     callback \in CallbackInputs, options \in OptionInputs :
    Step("doOnce", onceId, selector, callback, options,
         doOnce(attrs, onceId, selector, callback, options))

FindOnceAny ==
  \E onceId \in OnceIdInputs, options \in OptionInputs :
    Step("findOnce", onceId, NumberSelector, NoCallback, options,
         findOnce(attrs, onceId, options))

NextAny == QuerySelectorOnceAny \/ RemoveOnceAny \/ DoOnceAny \/ FindOnceAny

SpecAny == Init /\ [][NextAny]_vars

\* Calls on collections with a length and indexed access, iterable (an
\* Array, an HTMLCollection, a NodeList) or not (a plain object), and
\* callbacks that add a member to the collection or take one out of it
\* while doOnce goes through it.
LiveSelectors ==
  {ListSelector(k, l) : k \in {"array", "arraylike"}, l \in ItemLists}
LiveCallbacks ==
  {LiveFn("append", e) : e \in Elems} \cup {LiveFn("remove", 0)}

DoOnceLive ==
  \E onceId \in ValidOnceIds, selector \in LiveSelectors, callback \in LiveCallbacks :
    Step("doOnce", onceId, selector, callback, DefaultOptions,
         doOnce(attrs, onceId, selector, callback, DefaultOptions))

RemoveOnceLive ==
  \E onceId \in ValidOnceIds, selector \in LiveSelectors :
    Step("removeOnce", onceId, selector, NoCallback, DefaultOptions,
         removeOnce(attrs, onceId, selector, DefaultOptions))

NextLive == DoOnceLive \/ RemoveOnceLive

SpecLive == Init /\ [][NextLive]_vars

\* Calls that name the attribute.  The initial markup holds once ids under
\* the default attribute and under 'data-x'.  Attribute names: none, the
\* two custom ones, one without the data- prefix, one with nothing after
\* it, one with a capital, one with an underscore and one with '@'.
\* Selectors: one of each valid shape and a number.
AttrInit ==
  /\ attrs \in [Elems ->
       {[n \in AttrNames |->
           IF n = ONCE_ATTRIBUTE_NAME THEN v
           ELSE IF n = CustomAttribute THEN w ELSE NoAttr]
        : v \in {NoAttr, Attr(T_bt)},
          w \in {NoAttr, Attr(T_bt), Attr(<<"b","t","NBSP","B","t">>)}}]
  /\ last = NoCall
  /\ prev = NoCall

AttributeNameInputs ==
  {Undefined, Str(CustomAttribute), Str(DottedAttribute),
   Str(<<"x">>), Str(DataPrefix), Str(<<"d","a","t","a","-","X">>),
   Str(<<"d","a","t","a","-","a","_","b">>), Str(<<"d","a","t","a","-","@">>)}
AttrOptions == {Options(a, "undefined") : a \in AttributeNameInputs}
AttrSelectors ==
  {StringSelector("div"), ElementSelector(1),
   ListSelector("iterable", <<NumElems, 1>>), NumberSelector}

QuerySelectorOnceAttr ==
  \E selector \in AttrSelectors, options \in AttrOptions :
    Step("querySelectorOnce", Str(T_bt), selector, NoCallback, options,
         querySelectorOnce(attrs, Str(T_bt), selector, options))

RemoveOnceAttr ==
  \E selector \in AttrSelectors, options \in AttrOptions :
    Step("removeOnce", Str(T_bt), selector, NoCallback, options,
         removeOnce(attrs, Str(T_bt), selector, options))

DoOnceAttr ==
  \E selector \in AttrSelectors, callback \in CallbackInputs, options \in AttrOptions :
    Step("doOnce", Str(T_bt), selector, callback, options,
         doOnce(attrs, Str(T_bt), selector, callback, options))

FindOnceAttr ==
  \E options \in AttrOptions :
    Step("findOnce", Str(T_bt), NumberSelector, NoCallback, options,
         findOnce(attrs, Str(T_bt), options))

NextAttr == QuerySelectorOnceAttr \/ RemoveOnceAttr \/ DoOnceAttr \/ FindOnceAttr

SpecAttr == AttrInit /\ [][NextAttr]_vars

\* Calls with selectors of every shape and contexts of every kind.
\* Selectors: a CSS string, an element, an iterable, an array-like, an
\* Array, a number, null and a plain object.  Contexts: none, a container,
\* null, a plain object without querySelectorAll, and a string.
ShapeSelectors ==
  {StringSelector("div"), ElementSelector(1),
   ListSelector("iterable", <<NumElems, 1>>), ListSelector("arraylike", <<1, NumElems>>),
   ListSelector("array", <<NumElems>>),
   NumberSelector, NullSelector, PlainObjectSelector}
ShapeContexts == {"undefined", "container", "null", "object", "string"}
ShapeOptions ==
  {Options(a, c) : a \in AttributeInputs, c \in ShapeContexts}

QuerySelectorOnceShape ==
  \E selector \in ShapeSelectors, options \in ShapeOptions :
    Step("querySelectorOnce", Str(T_bt), selector, NoCallback, options,
         querySelectorOnce(attrs, Str(T_bt), selector, options))

RemoveOnceShape ==
  \E selector \in ShapeSelectors, options \in ShapeOptions :
    Step("removeOnce", Str(T_bt), selector, NoCallback, options,
         removeOnce(attrs, Str(T_bt), selector, options))

DoOnceShape ==
  \E selector \in ShapeSelectors, callback \in CallbackInputs, options \in ShapeOptions :
    Step("doOnce", Str(T_bt), selector, callback, options,
         doOnce(attrs, Str(T_bt), selector, callback, options))

FindOnceShape ==
  \E options \in ShapeOptions :
    Step("findOnce", Str(T_bt), NumberSelector, NoCallback, options,
         findOnce(attrs, Str(T_bt), options))

NextShape == QuerySelectorOnceShape \/ RemoveOnceShape \/ DoOnceShape \/ FindOnceShape

SpecShape == Init /\ [][NextShape]_vars

\* The private helpers, applied to the once attribute of the first element
\* of the document, which holds any string of at most MaxLen characters
\* drawn from three id characters, the space, the tab and the no-break
\* space, or is absent.
CodecChars == {"a", "b", "c", " ", "TAB", "NBSP"}
CodecValues == UNION {[1..n -> CodecChars] : n \in 0..MaxLen}
CodecIds == {<<"a">>, <<"b">>, <<"a","b">>}
CodecElement == 1

CodecInit ==
  /\ attrs \in {[e \in Elems |-> [n \in AttrNames |->
                   IF e = CodecElement /\ n = ONCE_ATTRIBUTE_NAME THEN v ELSE NoAttr]]
                : v \in {NoAttr} \cup {Attr(value) : value \in CodecValues}}
  /\ last = NoCall
  /\ prev = NoCall

\* A helper call: what it leaves of the document and what it returned.
Helper(op, onceId, dom, outcome) ==
  Step(op, Str(onceId), ElementSelector(CodecElement), NoCallback, DefaultOptions,
       [dom |-> dom, outcome |-> outcome, elements |-> <<>>, calls |-> <<>>])

AddHelper ==
  \E onceId \in CodecIds :
    Helper("addOnceAttributeValue", onceId,
           addOnceAttributeValue(attrs, CodecElement, onceId, ONCE_ATTRIBUTE_NAME),
           "return")

RemoveHelper ==
  \E onceId \in CodecIds :
    Helper("removeOnceAttributeValue", onceId,
           removeOnceAttributeValue(attrs, CodecElement, onceId, ONCE_ATTRIBUTE_NAME),
           "return")

HasHelper ==
  \E onceId \in CodecIds :
    Helper("hasOnceAttributeValue", onceId, attrs,
           IF hasOnceAttributeValue(attrs, CodecElement, onceId, ONCE_ATTRIBUTE_NAME)
           THEN "true" ELSE "false")

NextCodec == AddHelper \/ RemoveHelper \/ HasHelper

SpecCodec == CodecInit /\ [][NextCodec]_vars

\* Calls of doOnce whose callback calls doOnce again with the same once id,
\* on the element it was handed or with the selector of the outer call, and
\* calls of removeOnce.  One selector of each shape.
NestedSelectors(selector) == {HandedElement, selector}

DoOnceNest ==
  \E onceId \in ValidOnceIds, s \in WholeDocument :
    \E nested \in NestedSelectors(s[1]) :
      Step("doOnce", onceId, s[1], ReentrantFn(onceId, nested, s[2]), s[2],
           doOnce(attrs, onceId, s[1], ReentrantFn(onceId, nested, s[2]), s[2]))

RemoveOnceNest ==
  \E onceId \in ValidOnceIds, s \in WholeDocument :
    Step("removeOnce", onceId, s[1], NoCallback, s[2],
         removeOnce(attrs, onceId, s[1], s[2]))

NextNest == DoOnceNest \/ RemoveOnceNest

SpecNest == Init /\ [][NextNest]_vars

\* ----------------------------------------------------- reading the history
\* The once id and the attribute name a recorded call worked with.
IdOf(call) == call.onceId.chars
AttributeOf(call) == OnceAttributeOf(call.options)
Returns(call, op) == call.op = op /\ call.outcome = "return"

\* The elements a recorded call selected, and those its callback ran on.
Selected(call) == Range(Candidates(call.selector, call.options))
CalledOn(call) == [i \in 1..Len(call.calls) |-> call.calls[i].el]

\* Element e carries once id `id`: the membership test every operation and
\* findOnce use, [name~="id"], holds of it.
Carries(dom, e, id, name) == MatchesWord(dom, e, name, id)

\* The once ids an attribute holds, as the helpers that write it read them.
IdsOf(dom, e, name) ==
  IF Truthy(dom[e][name]) THEN OnceIdList(dom[e][name].value) ELSE <<>>

\* The number of times x occurs in a sequence.
RECURSIVE Count(_, _)
Count(x, seq) ==
  IF seq = <<>> THEN 0
  ELSE (IF Head(seq) = x THEN 1 ELSE 0) + Count(x, Tail(seq))

\* A sequence without its repeated members: first occurrences, in order.
RECURSIVE Distinct(_)
Distinct(seq) ==
  IF seq = <<>> THEN <<>>
  ELSE LET init == SubSeq(seq, 1, Len(seq) - 1)
           x == seq[Len(seq)]
       IN IF x \in Range(init) THEN Distinct(init) ELSE Append(Distinct(init), x)

\* ------------------------------------------------------------------ claims

\* C1  Idempotence of doOnce.  When two consecutive doOnce calls with the
\* same once id both select element e and their callbacks return, the
\* callback runs on e at most once over the two calls, exactly once if e
\* did not carry the id before the first call, and the result of the second
\* call does not contain e.
C1_DoOnceIdempotent ==
  (/\ Returns(prev, "doOnce") /\ Returns(last, "doOnce")
   /\ IdOf(prev) = IdOf(last) /\ AttributeOf(prev) = AttributeOf(last))
  => \A e \in Selected(prev) \cap Selected(last) :
       LET n == Count(e, CalledOn(prev)) + Count(e, CalledOn(last)) IN
         /\ n <= 1
         /\ ~Carries(prev.pre, e, IdOf(prev), AttributeOf(prev)) => n = 1
         /\ e \notin Range(last.elements)

\* C2  querySelectorOnce with a non-empty selector returns, without error,
\* exactly the matches of the selector in the context that did not carry the
\* id before the call, in document order, and every element it returns
\* carries the id afterwards.
C2_QuerySelectorOnceMarksNew ==
  (last.op = "querySelectorOnce" /\ last.selector.css # "")
  => LET matched == querySelectorAll(ContextOf(last.options), last.selector.css) IN
       /\ last.outcome = "return"
       /\ last.elements =
            SelectSeq(matched,
                      LAMBDA e : ~Carries(last.pre, e, IdOf(last), AttributeOf(last)))
       /\ \A e \in Range(last.elements) :
            Carries(attrs, e, IdOf(last), AttributeOf(last))

\* C3  removeOnce returns exactly the candidates that carried the id before
\* the call, in input order; afterwards no candidate carries it, also when
\* the attribute held it more than once; every other element keeps its
\* attributes; a second identical call returns an empty result.
C3_RemoveOnceUnmarks ==
  Returns(last, "removeOnce")
  => LET carried ==
           SelectSeq(Candidates(last.selector, last.options),
                     LAMBDA e : Carries(last.pre, e, IdOf(last), AttributeOf(last)))
     IN /\ last.elements = Distinct(carried)
        /\ \A e \in Selected(last) :
             ~Carries(attrs, e, IdOf(last), AttributeOf(last))
        /\ \A e \in Elems \ Range(carried) : attrs[e] = last.pre[e]
        /\ removeOnce(attrs, last.onceId, last.selector, last.options).elements = <<>>

\* C3 witness: a removeOnce that returned two elements in the order of its
\* input, the reverse of document order, one of which held the id twice.
C3_Witness ==
  /\ Returns(last, "removeOnce")
  /\ Len(last.elements) = 2
  /\ last.elements[1] > last.elements[2]
  /\ \E e \in Range(last.elements) :
       Count(IdOf(last), IdsOf(last.pre, e, AttributeOf(last))) = 2

\* The once id is a whole white-space-delimited entry of an attribute: the
\* attribute is present and the id occurs in its value with white space or
\* an end of the value on either side, in the same case.
IsWholeEntry(a, id) ==
  /\ a.present
  /\ \E i \in 1..Len(a.value) :
       LET j == i + Len(id) - 1 IN
         /\ j <= Len(a.value)
         /\ SubSeq(a.value, i, j) = id
         /\ i = 1 \/ a.value[i - 1] \in WHITESPACE_PATTERN
         /\ j = Len(a.value) \/ a.value[j + 1] \in WHITESPACE_PATTERN

\* C4  Exact-token membership.  An element that querySelectorOnce or doOnce
\* selects and leaves out, that removeOnce returns, or that findOnce returns
\* holds the once id as a whole white-space-delimited entry of the marker
\* attribute; a substring, a superstring or another case never counts.
C4_ExactTokenMembership ==
  /\ Returns(last, "querySelectorOnce")
       => \A e \in Selected(last) \ Range(last.elements) :
            IsWholeEntry(last.pre[e][AttributeOf(last)], IdOf(last))
  /\ Returns(last, "doOnce")
       => \A e \in Selected(last) \ Range(CalledOn(last)) :
            IsWholeEntry(last.pre[e][AttributeOf(last)], IdOf(last))
  /\ Returns(last, "removeOnce")
       => \A e \in Range(last.elements) :
            IsWholeEntry(last.pre[e][AttributeOf(last)], IdOf(last))
  /\ Returns(last, "findOnce")
       => \A e \in Range(last.elements) :
            IsWholeEntry(attrs[e][AttributeOf(last)], IdOf(last))

\* C4 witness: a doOnce with id "bt" that skipped an element holding "bt"
\* and ran its callback on an element holding exactly "Bt" and "btn".
C4_Witness ==
  /\ Returns(last, "doOnce")
  /\ IdOf(last) = T_bt
  /\ \E e \in Selected(last) \ Range(CalledOn(last)) :
       Includes(IdsOf(last.pre, e, AttributeOf(last)), T_bt)
  /\ \E e \in Range(CalledOn(last)) :
       IdsOf(last.pre, e, AttributeOf(last)) = <<<<"B","t">>, T_btn>>

\* A recorded call that adds its once id to the elements it returns.
Marks(call) ==
  /\ call.op \in {"querySelectorOnce", "doOnce"}
  /\ call.outcome = "return"

\* C5  Round trip.  When a marking call returns an element that had no
\* marker attribute, and the next call is a removeOnce with the same once
\* id and attribute name that selects the element, the element has no
\* marker attribute afterwards.
C5_MarkThenUnmarkLeavesAbsent ==
  (/\ Marks(prev) /\ Returns(last, "removeOnce")
   /\ IdOf(prev) = IdOf(last) /\ AttributeOf(prev) = AttributeOf(last))
  => \A e \in Range(prev.elements) \cap Selected(last) :
       ~prev.pre[e][AttributeOf(prev)].present
         => ~attrs[e][AttributeOf(last)].present

\* C5 witness: an element without the attribute was marked by one call,
\* returned by the removeOnce that followed, and is without the attribute.
C5_Witness ==
  /\ Marks(prev) /\ Returns(last, "removeOnce")
  /\ IdOf(prev) = IdOf(last) /\ AttributeOf(prev) = AttributeOf(last)
  /\ \E e \in Range(prev.elements) \cap Range(last.elements) :
       /\ ~prev.pre[e][AttributeOf(prev)].present
       /\ ~attrs[e][AttributeOf(last)].present

\* A sequence without the occurrences of x.
Without(seq, x) == SelectSeq(seq, LAMBDA y : y # x)

\* C6  Token isolation.  A call with once id t leaves the other once ids of
\* every element as they were, in the same order; after a marking call with
\* t1 and then one with t2, both returning element e, e carries both; a
\* removeOnce with t1 on an element holding exactly t1 and t2 leaves the
\* attribute holding only t2; a doOnce with t2 runs its callback on a
\* selected element that carries t1 and not t2.
C6_TokenIsolation ==
  /\ last.op # "none"
       => \A e \in Elems, n \in AttrNames :
            Without(IdsOf(attrs, e, n), IdOf(last))
              = Without(IdsOf(last.pre, e, n), IdOf(last))
  /\ (/\ Marks(prev) /\ Marks(last)
      /\ IdOf(prev) # IdOf(last) /\ AttributeOf(prev) = AttributeOf(last))
       => \A e \in Range(prev.elements) \cap Range(last.elements) :
            /\ Carries(attrs, e, IdOf(prev), AttributeOf(last))
            /\ Carries(attrs, e, IdOf(last), AttributeOf(last))
  /\ Returns(last, "removeOnce")
       => \A e \in Range(last.elements) :
            \A t2 \in {T_bt, T_btn} \ {IdOf(last)} :
              Range(IdsOf(last.pre, e, AttributeOf(last))) = {IdOf(last), t2}
                => Range(IdsOf(attrs, e, AttributeOf(last))) = {t2}
  /\ Returns(last, "doOnce")
       => \A e \in Selected(last) :
            \A t1 \in {T_bt, T_btn} \ {IdOf(last)} :
              (/\ Carries(last.pre, e, t1, AttributeOf(last))
               /\ ~Carries(last.pre, e, IdOf(last), AttributeOf(last)))
                => e \in Range(CalledOn(last))

\* No marker attribute is present with zero once ids.
NoEmptyMarker(dom) ==
  \A e \in Elems, n \in AttrNames :
    dom[e][n].present => OnceIdList(dom[e][n].value) # <<>>

\* C7  No empty attribute.  A call made on a document in which no marker
\* attribute is present with zero once ids leaves such a document, so every
\* sequence of calls from such a document does; a removeOnce that takes the
\* last once id of an element removes the attribute.
C7_NoEmptyAttribute ==
  /\ (last.op # "none" /\ NoEmptyMarker(last.pre)) => NoEmptyMarker(attrs)
  /\ Returns(last, "removeOnce")
       => \A e \in Range(last.elements) :
            IdsOf(attrs, e, AttributeOf(last)) = <<>>
              => ~attrs[e][AttributeOf(last)].present

\* C7 witness: on a document without empty marker attributes, a removeOnce
\* returned an element whose only once id was the one removed, and the
\* element is without the attribute.
C7_Witness ==
  /\ Returns(last, "removeOnce")
  /\ NoEmptyMarker(last.pre)
  /\ \E e \in Range(last.elements) :
       /\ IdsOf(last.pre, e, AttributeOf(last)) = <<IdOf(last)>>
       /\ ~attrs[e][AttributeOf(last)].present

\* Every marker attribute holds pairwise distinct once ids.
UniqueIds(dom) ==
  \A e \in Elems, n \in AttrNames :
    LET ids == IdsOf(dom, e, n) IN
      \A i, j \in 1..Len(ids) : ids[i] = ids[j] => i = j

\* C8  Token uniqueness.  A call made on a document in which every marker
\* attribute holds pairwise distinct once ids leaves such a document, so
\* every sequence of calls from such a document does.
C8_TokenUniqueness ==
  (last.op # "none" /\ UniqueIds(last.pre)) => UniqueIds(attrs)

\* C8 witness: on a document with distinct once ids, a doOnce visited one
\* unmarked element twice and the element holds the once id once.
C8_Witness ==
  /\ Returns(last, "doOnce")
  /\ UniqueIds(last.pre)
  /\ \E e \in Elems :
       /\ Count(e, Candidates(last.selector, last.options)) = 2
       /\ ~Includes(IdsOf(last.pre, e, AttributeOf(last)), IdOf(last))
       /\ Count(IdOf(last), IdsOf(attrs, e, AttributeOf(last))) = 1

\* C9  For a selector that is not a CSS string, a doOnce that returns has
\* run its callback on each element while the element did not carry the
\* once id, every element it ran the callback on carries the id afterwards,
\* and its result is those elements in the order of the calls.
C9_CallbackBeforeMark ==
  (Returns(last, "doOnce") /\ last.selector.kind # "string")
  => /\ \A i \in 1..Len(last.calls) :
          ~AttrMatchesWord(last.calls[i].attr, IdOf(last))
     /\ last.elements = CalledOn(last)
     /\ \A e \in Range(last.elements) :
          Carries(attrs, e, IdOf(last), AttributeOf(last))

\* C10  For every selector shape, the CSS string included, doOnce runs its
\* callback only on elements that did not carry the once id before the
\* call, and an element gets the id only after the callback has run on it:
\* it does not carry the id when the callback is entered.
C10_TokenAddedAfterCallback ==
  last.op = "doOnce"
  => /\ \A e \in Range(CalledOn(last)) :
          ~Carries(last.pre, e, IdOf(last), AttributeOf(last))
     /\ \A i \in 1..Len(last.calls) :
          ~AttrMatchesWord(last.calls[i].attr, IdOf(last))

\* C11  For a CSS selector string, doOnce has marked every match that did
\* not carry the once id before the first callback runs; when the callback
\* throws, the error leaves doOnce, those matches all carry the id, the ones
\* the callback never ran on included, and a later doOnce with the same
\* id and selector runs no callback.
C11_StringShapeMarksBeforeCallback ==
  (last.op = "doOnce" /\ last.selector.kind = "string" /\ last.selector.css # "")
  => LET fresh ==
           SelectSeq(querySelectorAll(ContextOf(last.options), last.selector.css),
                     LAMBDA e : ~Carries(last.pre, e, IdOf(last), AttributeOf(last)))
     IN /\ \A i \in 1..Len(last.calls) : \A e \in Range(fresh) :
             Carries(last.calls[i].dom, e, IdOf(last), AttributeOf(last))
        /\ last.outcome = "CallbackError"
             => /\ \A e \in Range(fresh) :
                     Carries(attrs, e, IdOf(last), AttributeOf(last))
                /\ doOnce(attrs, last.onceId, last.selector, Fn({}),
                          last.options).calls = <<>>

\* C12  For a selector that is not a CSS string, a callback that throws on
\* a candidate not carrying the once id makes doOnce end with that error;
\* the throwing invocation is the last one of the call; the elements the
\* callback returned on before it carry the id, and every other element,
\* the one the callback threw on and the later candidates included, keeps
\* its attributes.
C12_ThrowStopsWithoutRollback ==
  (last.op = "doOnce" /\ last.selector.kind # "string")
  => LET n == Len(last.calls)
         before == {last.calls[i].el : i \in 1..(n - 1)}
     IN /\ (\E e \in Selected(last) \cap last.callback.throwsOn :
              ~Carries(last.pre, e, IdOf(last), AttributeOf(last)))
             => last.outcome = "CallbackError"
        /\ last.outcome = "CallbackError"
             => /\ n >= 1
                /\ last.calls[n].el \in last.callback.throwsOn
                /\ \A i \in 1..(n - 1) : last.calls[i].el \notin last.callback.throwsOn
                /\ \A e \in before :
                     Carries(attrs, e, IdOf(last), AttributeOf(last))
                /\ \A e \in Elems \ before : attrs[e] = last.pre[e]

\* The errors the validation of the arguments throws.
ValidationErrors ==
  {"OnceIdEmpty", "OnceIdInvalid", "DataAttributeInvalid",
   "SelectorTypeError", "CallbackTypeError", "ContextTypeError"}

\* C13  Fail-fast validation.  A call that ends with a validation error has
\* invoked no callback and leaves every attribute of every element as it
\* was before the call.
C13_FailFastValidation ==
  last.outcome \in ValidationErrors
  => /\ attrs = last.pre
     /\ last.calls = <<>>
     /\ last.elements = <<>>

\* C13 witness: a doOnce handed a value that is not a function ended with
\* the callback error on a document where it selected an element that did
\* not carry the once id, and the document is as before.
C13_Witness ==
  /\ last.op = "doOnce"
  /\ last.outcome = "CallbackTypeError"
  /\ \E e \in Selected(last) :
       ~Carries(last.pre, e, IdOf(last), AttributeOf(last))
  /\ attrs = last.pre

\* sub is seq with some of its members left out, the others in place.
RECURSIVE IsSubsequence(_, _)
IsSubsequence(sub, seq) ==
  IF sub = <<>> THEN TRUE
  ELSE IF seq = <<>> THEN FALSE
  ELSE IF Head(sub) = Head(seq) THEN IsSubsequence(Tail(sub), Tail(seq))
  ELSE IsSubsequence(sub, Tail(seq))

\* C14  Order preservation.  The result of a doOnce that returns is the
\* sequence of elements its callback ran on, in the order of the calls, and
\* that sequence follows the order of the input: document order of the
\* matches for a CSS string, iteration order for a collection.  The result
\* of querySelectorOnce follows document order of the matches.
C14_OrderPreserved ==
  /\ Returns(last, "doOnce")
       => /\ last.elements = CalledOn(last)
          /\ IsSubsequence(last.elements, Candidates(last.selector, last.options))
  /\ Returns(last, "querySelectorOnce")
       => IsSubsequence(last.elements, Candidates(last.selector, last.options))

\* C14 witness: a doOnce over a collection listing the second element of
\* the document before the first ran its callback on both, in that order,
\* and returned them in that order.
C14_Witness ==
  /\ Returns(last, "doOnce")
  /\ last.selector.kind \in {"iterable", "arraylike"}
  /\ last.elements = <<2, 1>>
  /\ CalledOn(last) = <<2, 1>>

\* C15  Empty selector.  querySelectorOnce, doOnce and removeOnce called
\* with a valid once id, a valid attribute name, a function where one is
\* taken, and the selector "" return an empty result, whatever the context,
\* an invalid one included; no callback runs and no attribute changes.
C15_EmptySelector ==
  (/\ last.op \in {"querySelectorOnce", "doOnce", "removeOnce"}
   /\ last.selector = StringSelector("")
   /\ assertOnceId(last.onceId) = "ok"
   /\ assertDataAttribute(AttributeOf(last))
   /\ last.op = "doOnce" => last.callback.type = "function")
  => /\ last.outcome = "return"
     /\ last.elements = <<>>
     /\ last.calls = <<>>
     /\ attrs = last.pre

\* C15 witness: a doOnce with the selector "" and a null context returned
\* an empty result on a document with an element not carrying the once id.
C15_Witness ==
  /\ Returns(last, "doOnce")
  /\ last.selector = StringSelector("")
  /\ last.options.context = "null"
  /\ last.elements = <<>>
  /\ \E e \in Elems : ~Carries(attrs, e, IdOf(last), AttributeOf(last))

\* findOnce over the whole document with the attribute name of a call.
FoundAfter(call) ==
  Range(findOnce(attrs, call.onceId,
                 Options(call.options.onceAttribute, "undefined")).elements)

\* C16  findOnce changes no attribute and returns, in document order,
\* exactly the elements of the context whose marker attribute holds the
\* once id as a whole white-space-delimited entry; so it finds every
\* element a marking call has just returned and none of the elements a
\* removeOnce has just returned.
C16_FindOnceReadsMarks ==
  /\ Returns(last, "findOnce")
       => /\ attrs = last.pre
          /\ last.elements =
               SelectSeq(DocOrder, LAMBDA e :
                 /\ InContext(ContextOf(last.options), e)
                 /\ IsWholeEntry(attrs[e][AttributeOf(last)], IdOf(last)))
  /\ Marks(last) => Range(last.elements) \subseteq FoundAfter(last)
  /\ Returns(last, "removeOnce") => Range(last.elements) \cap FoundAfter(last) = {}

\* C17  removeOnce makes elements processable again.  When a doOnce has
\* returned element e and the next call is a removeOnce with the same once
\* id and attribute name that selects e, a further doOnce with that id on e
\* runs the callback on e and returns it, and a further querySelectorOnce
\* with that id returns e.
C17_RemoveOnceAllowsReprocessing ==
  (/\ Returns(prev, "doOnce") /\ Returns(last, "removeOnce")
   /\ IdOf(prev) = IdOf(last) /\ AttributeOf(prev) = AttributeOf(last))
  => \A e \in Range(prev.elements) \cap Selected(last) :
       LET again == doOnce(attrs, last.onceId, ElementSelector(e), Fn({}),
                           last.options)
           query == querySelectorOnce(attrs, last.onceId, StringSelector("div"),
                                      last.options)
       IN /\ again.outcome = "return"
          /\ again.elements = <<e>>
          /\ CalledOn(again) = <<e>>
          /\ e \in Range(query.elements)

\* C17 witness: a doOnce ran its callback on an element and returned it,
\* and the removeOnce that followed returned the element too.
C17_Witness ==
  /\ Returns(prev, "doOnce") /\ Returns(last, "removeOnce")
  /\ IdOf(prev) = IdOf(last) /\ AttributeOf(prev) = AttributeOf(last)
  /\ \E e \in Range(prev.elements) \cap Range(last.elements) :
       /\ e \in Range(CalledOn(prev))
       /\ ~Carries(attrs, e, IdOf(last), AttributeOf(last))

\* C18  A doOnce given a collection with a length and indexed access goes
\* through it at most as many times as the collection had members when the
\* call began, whatever the callback adds to it or takes out of it, so it
\* runs its callback at most that many times; a removeOnce given such a
\* collection returns the members that carried the once id, each once, in
\* ascending order of their positions.
C18_LengthReadOnce ==
  /\ (last.op = "doOnce" /\ isArrayLike(last.selector))
       => /\ last.outcome = "return"
          /\ Len(last.calls) <= Len(last.selector.items)
  /\ (last.op = "removeOnce" /\ isArrayLike(last.selector))
       => /\ last.outcome = "return"
          /\ last.elements =
               Distinct(SelectSeq(Candidates(last.selector, last.options),
                          LAMBDA e : Carries(last.pre, e, IdOf(last), AttributeOf(last))))

\* C19  Members of an iterable or array-like selector that are not
\* elements are skipped: doOnce and removeOnce end as they would on the same
\* collection without those members, with the same result, the same
\* callback invocations in the same order and the same attributes; no such
\* member is in the result or handed to the callback, and no error is
\* raised unless the callback throws.
C19_NonElementsSkipped ==
  (/\ last.op \in {"doOnce", "removeOnce"}
   /\ last.selector.kind \in {"iterable", "arraylike"})
  => LET clean == ListSelector(last.selector.kind,
                               SelectSeq(last.selector.items, isElement))
         r == IF last.op = "doOnce"
              THEN doOnce(last.pre, last.onceId, clean, last.callback, last.options)
              ELSE removeOnce(last.pre, last.onceId, clean, last.options)
     IN /\ last.outcome = r.outcome
        /\ last.elements = r.elements
        /\ last.calls = r.calls
        /\ attrs = r.dom
        /\ 0 \notin Range(last.elements) \cup Range(CalledOn(last))
        /\ last.callback.throwsOn = {} => last.outcome = "return"

\* C19 witness: a doOnce over two different elements with a non-element
\* between them ran its callback on the first and then on the second and
\* returned both.
C19_Witness ==
  /\ Returns(last, "doOnce")
  /\ Len(last.selector.items) = 3
  /\ last.selector.items[2] = 0
  /\ last.selector.items[1] # last.selector.items[3]
  /\ CalledOn(last) = <<last.selector.items[1], last.selector.items[3]>>
  /\ last.elements = CalledOn(last)

\* C20  Identifier validation.  Every public operation ends with the
\* once-id error for null, undefined and the empty string, and with the
\* once-id error for a string holding a character outside [A-Za-z0-9_-],
\* whatever its other arguments are, invalid ones included; it raises no
\* once-id error for a non-empty string of those characters.
C20_IdentifierValidation ==
  last.op # "none"
  => LET v == last.onceId IN
       /\ (v.type # "string" \/ v.chars = <<>>) => last.outcome = "OnceIdEmpty"
       /\ (/\ v.type = "string"
           /\ \E i \in 1..Len(v.chars) : v.chars[i] \notin ONCE_ID_PATTERN)
            => last.outcome = "OnceIdInvalid"
       /\ (/\ v.type = "string" /\ v.chars # <<>>
           /\ \A i \in 1..Len(v.chars) : v.chars[i] \in ONCE_ID_PATTERN)
            => last.outcome \notin {"OnceIdEmpty", "OnceIdInvalid"}

\* C20 witness: a findOnce with a once id holding '@', an attribute name
\* without the data- prefix and a null context ended with the once-id
\* error.
C20_Witness ==
  /\ last.op = "findOnce"
  /\ last.onceId = Str(<<"b","@">>)
  /\ ~assertDataAttribute(AttributeOf(last))
  /\ ~assertValidContext(ContextOf(last.options))
  /\ last.outcome = "OnceIdInvalid"

\* The recorded call made again, on document dom and with other options.
Again(call, dom, options) ==
  IF call.op = "querySelectorOnce"
  THEN querySelectorOnce(dom, call.onceId, call.selector, options)
  ELSE IF call.op = "removeOnce"
  THEN removeOnce(dom, call.onceId, call.selector, options)
  ELSE IF call.op = "doOnce"
  THEN doOnce(dom, call.onceId, call.selector, call.callback, options)
  ELSE findOnce(dom, call.onceId, options)

\* ^data-[a-z0-9.:-]+$ : the prefix 'data-' and after it one or more of the
\* lower-case letters, the digits, '.', ':' and '-'.
IsDataAttributeName(s) ==
  /\ Len(s) >= 6
  /\ <<s[1], s[2], s[3], s[4], s[5]>> = <<"d", "a", "t", "a", "-">>
  /\ \A i \in 6..Len(s) : s[i] \in LowerCase \cup Digits \cup {".", ":", "-"}

\* C21  Attribute-name validation.  A call with a valid once id ends with
\* the data-attribute error when the attribute name it is given does not
\* match ^data-[a-z0-9.:-]+$, whatever its other arguments are, and raises
\* no such error when the name matches; a call given no name ends as the
\* same call given 'data-dom-once' does, with the same document.
C21_AttributeNameValidation ==
  (last.op # "none" /\ assertOnceId(last.onceId) = "ok")
  => LET a == last.options.onceAttribute IN
       /\ (a.type = "string" /\ ~IsDataAttributeName(a.chars))
            => last.outcome = "DataAttributeInvalid"
       /\ (a.type = "string" /\ IsDataAttributeName(a.chars))
            => last.outcome # "DataAttributeInvalid"
       /\ a.type = "undefined"
            => LET r == Again(last, last.pre,
                              Options(Str(ONCE_ATTRIBUTE_NAME), last.options.context))
               IN /\ last.outcome # "DataAttributeInvalid"
                  /\ last.outcome = r.outcome
                  /\ last.elements = r.elements
                  /\ attrs = r.dom

\* C21 witness: a removeOnce given the name 'data-a_b' and a number as
\* selector ended with the data-attribute error.
C21_Witness ==
  /\ last.op = "removeOnce"
  /\ last.options.onceAttribute = Str(<<"d","a","t","a","-","a","_","b">>)
  /\ last.selector = NumberSelector
  /\ last.outcome = "DataAttributeInvalid"

\* C22  Selector-shape validation.  Given a valid once id and attribute
\* name, doOnce and removeOnce end with the selector TypeError, with no
\* callback invoked and no attribute changed, for a selector that is not a
\* string, an element, an iterable or an array-like collection, and raise
\* no such error for one that is; querySelectorOnce ends with the selector
\* TypeError for every selector that is not a string, an element and a
\* collection included, and raises none for a string.
C22_SelectorShapeValidation ==
  (/\ last.op \in {"querySelectorOnce", "doOnce", "removeOnce"}
   /\ assertOnceId(last.onceId) = "ok"
   /\ IsDataAttributeName(AttributeOf(last)))
  => LET accepted ==
           IF last.op = "querySelectorOnce" THEN {"string"}
           ELSE {"string", "element", "iterable", "arraylike", "array"}
     IN /\ last.selector.kind \notin accepted
             => /\ last.outcome = "SelectorTypeError"
                /\ last.calls = <<>>
                /\ attrs = last.pre
        /\ last.selector.kind \in accepted
             => last.outcome # "SelectorTypeError"

\* C22 witness: a querySelectorOnce given an element that did not carry the
\* once id ended with the selector TypeError and left the element as it was.
C22_Witness ==
  /\ last.op = "querySelectorOnce"
  /\ last.selector.kind = "element"
  /\ AttributeOf(last) = ONCE_ATTRIBUTE_NAME
  /\ ~Carries(last.pre, last.selector.el, IdOf(last), AttributeOf(last))
  /\ last.outcome = "SelectorTypeError"
  /\ attrs = last.pre

\* The recorded call queries its context: it is a querySelectorOnce, doOnce
\* or removeOnce with a non-empty CSS string, or a findOnce.
NeedsContext(call) ==
  \/ call.op = "findOnce"
  \/ /\ call.op \in {"querySelectorOnce", "doOnce", "removeOnce"}
     /\ call.selector.kind = "string"
     /\ call.selector.css # ""

\* C23  Context validation.  A call that queries its context and whose
\* other arguments are valid ends with the context TypeError, with no
\* callback invoked and no attribute changed, when the context is null or
\* has no querySelectorAll, and raises no such error for the document or
\* an element; a doOnce or removeOnce given an element, an iterable or an
\* array-like collection ends as the same call without a context does.
C23_ContextValidation ==
  /\ (/\ NeedsContext(last)
      /\ assertOnceId(last.onceId) = "ok"
      /\ IsDataAttributeName(AttributeOf(last))
      /\ last.op = "doOnce" => last.callback.type = "function")
       => IF ContextOf(last.options) \in {"document", "container"}
          THEN last.outcome # "ContextTypeError"
          ELSE /\ last.outcome = "ContextTypeError"
               /\ last.calls = <<>>
               /\ attrs = last.pre
  /\ (/\ last.op \in {"doOnce", "removeOnce"}
      /\ last.selector.kind \in {"element", "iterable", "arraylike", "array"})
       => LET r == Again(last, last.pre,
                         Options(last.options.onceAttribute, "undefined"))
          IN /\ last.outcome # "ContextTypeError"
             /\ last.outcome = r.outcome
             /\ last.elements = r.elements
             /\ last.calls = r.calls
             /\ attrs = r.dom

\* C23 witness: a doOnce given a function, a CSS string matching an element
\* that did not carry the once id, and a plain object as context ended with
\* the context TypeError, no callback invoked.
C23_Witness ==
  /\ last.op = "doOnce"
  /\ last.selector = StringSelector("div")
  /\ last.callback.type = "function"
  /\ last.options.context = "object"
  /\ AttributeOf(last) = ONCE_ATTRIBUTE_NAME
  /\ \E e \in Elems : ~Carries(last.pre, e, IdOf(last), AttributeOf(last))
  /\ last.outcome = "ContextTypeError"
  /\ last.calls = <<>>

\* Document dom with every attribute but `name` taken off every element.
OnlyAttribute(dom, name) ==
  [e \in Elems |-> [n \in AttrNames |-> IF n = name THEN dom[e][n] ELSE NoAttr]]

\* C24  Per-call attribute isolation.  A call that works with attribute
\* name A leaves every other attribute of every element as it was, the
\* default one included when A is not the default; it ends as the same call
\* does on the document stripped of every attribute but A, with the same
\* result, the same callback invocations and the same values of A; so a
\* marking call that returns has returned every selected element that did
\* not carry the once id under A, whatever it holds under another name.
C24_AttributeIsolation ==
  last.op # "none"
  => LET A == AttributeOf(last)
         r == Again(last, OnlyAttribute(last.pre, A), last.options)
     IN /\ \A e \in Elems, n \in AttrNames \ {A} : attrs[e][n] = last.pre[e][n]
        /\ last.outcome = r.outcome
        /\ last.elements = r.elements
        /\ CalledOn(last) = CalledOn(r)
        /\ \A e \in Elems, n \in AttrNames \cap {A} : attrs[e][n] = r.dom[e][n]
        /\ Marks(last)
             => \A e \in Selected(last) :
                  ~Carries(last.pre, e, IdOf(last), A) => e \in Range(last.elements)

\* C24 witness: a doOnce with the name 'data-x' ran its callback on an
\* element that held the once id under the default attribute and had no
\* 'data-x'; the element holds the id under 'data-x' and its default
\* attribute is as before.
C24_Witness ==
  /\ Returns(last, "doOnce")
  /\ AttributeOf(last) = CustomAttribute
  /\ \E e \in Range(CalledOn(last)) :
       /\ Carries(last.pre, e, IdOf(last), ONCE_ATTRIBUTE_NAME)
       /\ ~last.pre[e][CustomAttribute].present
       /\ attrs[e][CustomAttribute] = Attr(IdOf(last))
       /\ attrs[e][ONCE_ATTRIBUTE_NAME] = last.pre[e][ONCE_ATTRIBUTE_NAME]

\* C25  Every element a querySelectorOnce or doOnce returns carries the
\* once id when the call returns, whatever value its marker attribute had
\* before: the membership test holds of it, and the same call made again
\* does not return it.
C25_ReturnedElementsCarryToken ==
  Marks(last)
  => /\ \A e \in Range(last.elements) :
          hasOnceAttributeValue(attrs, e, IdOf(last), AttributeOf(last))
     /\ Range(Again(last, attrs, last.options).elements)
          \cap Range(last.elements) = {}

\* C26  The membership test and the codec agree: hasOnceAttributeValue
\* gives true for a once id exactly when the id is a member of the list
\* that addOnceAttributeValue and removeOnceAttributeValue get from the
\* attribute value by trimming it and splitting it on /\s+/.
C26_MembershipAgreesWithCodec ==
  last.op = "hasOnceAttributeValue"
  => (last.outcome = "true"
        <=> Includes(IdsOf(last.pre, last.selector.el, AttributeOf(last)), IdOf(last)))

IsCanonical(value) ==
  /\ value # <<>>
  /\ value[1] \notin WHITESPACE_PATTERN
  /\ value[Len(value)] \notin WHITESPACE_PATTERN
  /\ \A i \in 1..(Len(value) - 1) :
       value[i] \in WHITESPACE_PATTERN
         => (value[i] = " " /\ value[i + 1] \notin WHITESPACE_PATTERN)

\* The once ids a helper call is to leave: those read before the call, in
\* their order, with the id appended or with its occurrences taken out.
IdsToLeave(call) ==
  LET before == IdsOf(call.pre, call.selector.el, AttributeOf(call)) IN
    IF call.op = "addOnceAttributeValue"
    THEN Append(before, IdOf(call)) ELSE Without(before, IdOf(call))

\* C28  Canonical writes with tolerant reads.  When a helper changes the
\* marker attribute, the value it leaves is canonical and is the once ids
\* read before the call, in their order, joined by single spaces, with the
\* new id last after an addition and without the id after a removal;
\* whatever runs of white space separate or surround the once ids of a
\* value, the membership test finds each of them.
C28_CanonicalWritesTolerantReads ==
  /\ (/\ last.op \in {"addOnceAttributeValue", "removeOnceAttributeValue"}
      /\ attrs # last.pre)
       => LET after == attrs[last.selector.el][AttributeOf(last)] IN
            IF after.present
            THEN /\ IsCanonical(after.value)
                 /\ after.value = Join(IdsToLeave(last))
            ELSE IdsToLeave(last) = <<>>
  /\ last.op = "hasOnceAttributeValue"
       => (Includes(IdsOf(last.pre, last.selector.el, AttributeOf(last)), IdOf(last))
             => last.outcome = "true")

\* C29  At most once under re-entrancy.  For every selector shape, when
\* the callback of a doOnce calls doOnce again with the same once id and a
\* selector that selects the element it was handed, no callback runs on
\* that element a second time: over the outer call and the calls nested in
\* it, every element is handed to a callback at most once.
C29_AtMostOnceUnderReentrancy ==
  (last.op = "doOnce" /\ last.callback.effect = "reenter")
  => \A e \in Elems : Count(e, CalledOn(last)) <= 1

\* C30  removeOnceAttributeValue does nothing when the once id is not in
\* the list it reads from the attribute: the attribute is neither rewritten
\* nor removed, whatever its value, irregular white space and white space
\* only included.
C30_RemoveHelperNoOpWhenAbsent ==
  (/\ last.op = "removeOnceAttributeValue"
   /\ ~Includes(IdsOf(last.pre, last.selector.el, AttributeOf(last)), IdOf(last)))
  => attrs = last.pre

====
